---- MODULE Spec2Model ----
(***************************************************************************)
(* Model of the Quantum Garden core: ParticleSystem (Verlet integration,   *)
(* capacity eviction, boundary constraints, lifetime) and Engine (fixed    *)
(* timestep loop).                                                         *)
(*                                                                         *)
(* Numbers.  The source computes in IEEE doubles.  The model computes on   *)
(* an integer grid: positions, velocities and times are integers, and a    *)
(* product with a non-integer factor (friction/100, restitution 0.8,       *)
(* 1/dt, the field falloff) is rounded toward zero by Quot.                *)
(***************************************************************************)
EXTENDS Integers, Sequences, FiniteSets

VARIABLES
    \* ---- ParticleSystem (src/src/physics/ParticleSystem.ts:9-13)
    particles,      \* private particles: Particle[]
    nextId,         \* private nextId
    config,         \* private config: GameConfig (shared object)
    width,          \* private width
    height,         \* private height
    \* ---- history of the ParticleSystem calls (not program state)
    lastOp,         \* the last call made on the ParticleSystem, or by its caller, and its result
    elapsed,        \* elapsed[id]: sum of dt of the update calls particle id lived through
    pinned,         \* pinned[id]: particle id was fixed during an update call with dt > 0
    issued          \* the ids createParticle has given out, in order

VARIABLES
    \* ---- Engine (src/src/core/Engine.ts:6-12)
    running,        \* private running
    lastTime,       \* private lastTime
    accumulator,    \* private accumulator
    fps,            \* private fps
    frameCount,     \* private frameCount
    lastFpsUpdate,  \* private lastFpsUpdate
    \* ---- the invocation of loop in progress
    pc,             \* "idle": no loop call is executing; "drain": at the while loop
    currentTime,    \* loop's parameter
    deltaTime,      \* loop's local deltaTime
    caller,         \* "start": loop was called by start(); "raf": by the browser
    \* ---- the browser
    clock,          \* performance.now()
    frameTime,      \* the timestamp of the display frame whose callbacks are run
    pending,        \* callbacks requested with requestAnimationFrame for the next frame
    ready,          \* callbacks of the current display frame still to be run
    \* ---- history of the Engine calls (not program state)
    engOp,          \* the last call made on the Engine, or the last browser step
    accBefore,      \* the accumulator when the last loop call began
    frameLog,       \* the callbacks the last loop call invoked, in order
    windowFrames,   \* the loop calls completed since the FPS window began
    closedFrames    \* the loop calls of the last FPS window that closed (0: none has)

VARIABLES
    \* ---- Game (src/src/core/Game.ts:23-28), the caller of the ParticleSystem
    gameFields,     \* private fields: ForceField[], the list handed to update
    nextFieldId,    \* private nextFieldId
    \* ---- history of the Game calls (not program state)
    fieldIssued     \* the ids createField has given out, in order

VARIABLES
    \* ---- Game (src/src/core/Game.ts:20-28): the tick, the tools and the pointer
    isPaused,           \* state.isPaused
    activeTool,         \* state.activeTool
    isMouseDown,        \* private isMouseDown
    mousePosition,      \* private mousePosition, NoPosition for null
    gameTime,           \* private gameTime, in fixed steps
    particleSpawnTimer, \* private particleSpawnTimer, in fixed steps
    stateParticles,     \* the array state.particles refers to, the one render draws
    stats               \* state.stats

VARIABLES
    \* ---- EventBus (src/src/core/Game.ts:450-495), the handlers of one event
    handlers,       \* events.get(event), in subscription order
    emitIndex,      \* the index forEach is at, 0 when no emit is running
    emitLength,     \* the length forEach read when it began
    \* ---- history of the emission (not program state)
    invoked,        \* the handlers the last emit has invoked, in order
    atStart,        \* the handlers subscribed when the last emit began
    removedEarly,   \* the handlers unsubscribed during the last emit before their turn
    busOp           \* the last call made on the EventBus

psVars == <<particles, nextId, config, width, height, lastOp, elapsed, pinned, issued>>

engVars == <<running, lastTime, accumulator, fps, frameCount, lastFpsUpdate, pc,
             currentTime, deltaTime, caller, clock, frameTime, pending, ready,
             engOp, accBefore, frameLog, windowFrames, closedFrames>>

playVars == <<isPaused, activeTool, isMouseDown, mousePosition, gameTime,
              particleSpawnTimer, stateParticles, stats>>

busVars == <<handlers, emitIndex, emitLength, invoked, atStart, removedEarly, busOp>>

gameVars == <<gameFields, nextFieldId, fieldIssued, playVars, busVars>>

vars == <<psVars, engVars, gameVars>>

----------------------------------------------------------------------------
\* Bounds of the model

MaxParticles == 2       \* the largest config.maxParticles considered
MaxIds == 3             \* createParticle is called at most this many times
MaxDt == 2              \* update is called with dt in 0..MaxDt

MaxPending == 2         \* at most this many frame callbacks are requested at a time
MaxSkew == 2            \* a frame's timestamp is at most this far behind the clock

MaxFieldIds == 3        \* createField is called at most this many times between ticks
MaxFieldCalls == 32     \* createField is called at most this many times in all
MaxUlps == 8            \* a frame begins with the accumulator this near 0 or fixedDelta
MaxGameTime == 4        \* the Game is followed for this many ticks that are not paused
MaxHandlers == 3        \* the handlers that subscribe to the event
MaxFallTicks == 4       \* a free flight is followed for at most this many ticks

\* Program constants
FixedDelta == 2         \* fixedDelta = 1/60 s; the unit of time of the Engine is 1/120 s
MaxDeltaTime == 12      \* the clamp 0.1 s = 6 * fixedDelta
FixedDeltaMod8 == 1     \* fl(1/60) = 4803839602528529 * 2^-58 s, and that integer mod 8
ClampExcess == 2        \* fl(0.1) - 6 * fl(1/60), in units of 2^-58 s
MaxSteps == 6           \* 0.1 s / fixedDelta
FpsWindow == 120        \* 1000 ms
InitialFps == 60
RestitutionNum == 4     \* restitution = 0.8 = 4/5
RestitutionDen == 5
MinDistSqDen == 10      \* distanceSq > 0.1, i.e. distanceSq * 10 > 1
MaxFields == 30         \* Game.MAX_FIELDS
SpawnTimerNum == 9      \* the spawn timer is due at 0.03 s = 9/5 fixed steps
SpawnTimerDen == 5

\* Inputs of the calls.  A spawn is the pair of createParticle's arguments; an
\* omitted velocity is drawn by random(-2, 2) per axis and lies in the same range.
Spawn(px, py, vx, vy) == [position |-> [x |-> px, y |-> py], vel |-> [x |-> vx, y |-> vy]]
Dim(w, h) == [width |-> w, height |-> h]

PopSpawns == {Spawn(3, 4, 0, 0), Spawn(2, 2, 1, 0 - 1)}
PopDims == {Dim(6, 6)}
PopDts == 1..MaxDt

\* The instants (performance.now(), in 1/120 s) at which the browser runs something
Instants == {2, 7, 9, 25, 130, 135}

MotionSpawns == {Spawn(3, 4, 0, 0), Spawn(8, 0 - 2, 2, 0 - 1), Spawn(1, 5, 0 - 2, 2)}
MotionDims == {Dim(6, 6), Dim(1, 4)}
MotionDts == 0..MaxDt

\* The bounces: particles thrown at each wall and at a corner from inside the viewport,
\* and one spawned beyond the far wall
BounceSpawns == {Spawn(3, 4, 4, 0), Spawn(3, 3, 0 - 4, 0 - 4), Spawn(3, 2, 0, 4),
                 Spawn(7, 3, 1, 0)}

\* The Game: the pointer positions of the particle tool and of the field tools; update
\* is called with the Engine's fixedDelta, here one unit of the ParticleSystem's time
GameSpawns == {Spawn(3, 4, 0, 0), Spawn(2, 2, 1, 0 - 1)}
GameFieldTypes == {"attractor", "vortex"}
GameFieldPositions == {[x |-> 3, y |-> 2]}
GameDts == {1}
\* the velocities random(-2, 2) gives the particles of the particle tool
GameVels == {[x |-> 0, y |-> 0], [x |-> 1, y |-> 0 - 1]}
GameTools == {"particle", "attractor", "clear"}
\* mousePosition = null: no pointer position on the canvas has a negative coordinate
NoPosition == [x |-> 0 - 1, y |-> 0 - 1]
\* a number handed to updateConfig: Number.isFinite is false of NaN and the infinities
\* and n < 0 is true of -Infinity alone among them
Number(n) == [finite |-> TRUE, n |-> n]
NotANumber == [finite |-> FALSE, n |-> 0]
PlusInfinity == [finite |-> FALSE, n |-> 1]
MinusInfinity == [finite |-> FALSE, n |-> 0 - 1]

\* The free flight: a tall viewport, and the sliders set to no damping and to a
\* lifetime that outlasts the flight
FallSpawns == {Spawn(3, 1, 1, 0), Spawn(2, 4, 0 - 1, 2)}
FallDims == {Dim(12, 30)}
FallConfigInputs ==
    { <<"friction", Number(100)>>,
      <<"particleLifetime", Number(MaxDt * MaxFallTicks + 1)>> }

\* the sliders: a key of the configuration and the number written to it
ConfigInputs ==
    { <<"gravity", Number(2)>>, <<"gravity", Number(0 - 1)>>,
      <<"friction", Number(100)>>, <<"friction", NotANumber>> }

----------------------------------------------------------------------------
\* Arithmetic on the grid

\* a / b rounded toward zero (b > 0)
Quot(a, b) == IF a >= 0 THEN a \div b ELSE 0 - ((0 - a) \div b)

\* Math.sqrt on the grid
ISqrt(n) == CHOOSE r \in 0..n : r * r <= n /\ (r + 1) * (r + 1) > n

\* Vec2 (src/src/utils/math.ts)
Vec2Create(x, y) == [x |-> x, y |-> y]
Vec2Add(a, b) == [x |-> a.x + b.x, y |-> a.y + b.y]
Vec2Sub(a, b) == [x |-> a.x - b.x, y |-> a.y - b.y]
Vec2MagnitudeSq(v) == v.x * v.x + v.y * v.y
\* Vec2.mult by the rational num/den
Vec2Mult(v, num, den) == [x |-> Quot(v.x * num, den), y |-> Quot(v.y * num, den)]
\* Vec2.rotate by Math.PI / 2: cos = 0, sin = 1
Vec2RotateQuarter(v) == [x |-> 0 - v.y, y |-> v.x]

Min(a, b) == IF a < b THEN a ELSE b

----------------------------------------------------------------------------
\* Force fields handed to update (owned by the caller)

Field(id, type, x, y, active) ==
    [id |-> id, type |-> type, position |-> [x |-> x, y |-> y],
     strength |-> 6, radius |-> 4, active |-> active]

FieldLists ==
    { <<>>,
      <<Field(0, "attractor", 3, 2, TRUE)>>,
      <<Field(0, "repulsor", 2, 4, FALSE), Field(1, "vortex", 4, 4, TRUE),
        Field(2, "repulsor", 1, 3, TRUE), Field(3, "directional", 3, 3, TRUE)>> }

\* the lists of the motion study: none, and the list of four fields
MotionLists == {fieldList \in FieldLists : Len(fieldList) # 1}

\* FieldLists and a list with a particle's resting place (3, 2) at the centre of one
\* field, on the radius of another and within the radius of a third
ReachLists ==
    FieldLists \cup
    { <<Field(0, "attractor", 3, 2, TRUE), Field(1, "repulsor", 3, 6, TRUE),
        Field(2, "vortex", 4, 4, TRUE)>> }

\* calculateFieldForce: strength = field.strength * (1 - distance / field.radius),
\* applied along the normalized direction (Vec2.normalize of the zero vector is zero)
CalculateFieldForce(field, direction, distance) ==
    LET num == field.strength * (field.radius - distance)
        den == field.radius * distance
    IN  IF distance = 0 THEN Vec2Create(0, 0) ELSE
        CASE field.type = "attractor" -> Vec2Mult(direction, num, den)
          [] field.type = "repulsor" -> Vec2Mult(direction, 0 - num, den)
          [] field.type = "vortex" ->
                Vec2Add(Vec2Mult(Vec2RotateQuarter(direction), num, den),
                        Vec2Mult(direction, num, den * 5))
          [] OTHER -> Vec2Create(0, 0)

\* (variant: the active flag is not read)
FieldContribution_IgnoresActive(particle, field) ==
    LET direction == Vec2Sub(field.position, particle.position)
        distanceSq == Vec2MagnitudeSq(direction)
        radiusSq == field.radius * field.radius
    IN  IF distanceSq < radiusSq /\ distanceSq * MinDistSqDen > 1
        THEN CalculateFieldForce(field, direction, ISqrt(distanceSq))
        ELSE Vec2Create(0, 0)

\* (variant: the field's radius is not checked)
FieldContribution_NoRadius(particle, field) ==
    LET direction == Vec2Sub(field.position, particle.position)
        distanceSq == Vec2MagnitudeSq(direction)
    IN  IF ~field.active THEN Vec2Create(0, 0)
        ELSE IF distanceSq * MinDistSqDen > 1
             THEN CalculateFieldForce(field, direction, ISqrt(distanceSq))
             ELSE Vec2Create(0, 0)

\* the contribution of one field of the list in calculateForces
FieldContribution(particle, field) ==
    LET direction == Vec2Sub(field.position, particle.position)
        distanceSq == Vec2MagnitudeSq(direction)
        radiusSq == field.radius * field.radius
    IN  IF ~field.active THEN Vec2Create(0, 0)
        ELSE IF distanceSq < radiusSq /\ distanceSq * MinDistSqDen > 1
             THEN CalculateFieldForce(field, direction, ISqrt(distanceSq))
             ELSE Vec2Create(0, 0)

RECURSIVE SumFields(_, _, _)
SumFields(particle, fields, i) ==
    IF i > Len(fields) THEN Vec2Create(0, 0)
    ELSE Vec2Add(FieldContribution(particle, fields[i]), SumFields(particle, fields, i + 1))

\* (variant: gravity is left out)
CalculateForces_NoGravity(particle, fields) == SumFields(particle, fields, 1)

\* calculateForces, lines 100-119
CalculateForces(particle, fields) ==
    Vec2Add(Vec2Create(0, config.gravity), SumFields(particle, fields, 1))

----------------------------------------------------------------------------
\* ParticleSystem

\* this.particles.pop()
Pop(ps) == IF Len(ps) = 0 THEN ps ELSE SubSeq(ps, 1, Len(ps) - 1)

\* (variant: no eviction at capacity)
Evict_Never(ps) == ps

\* createParticle, lines 25-29: make room when at capacity
Evict(ps) == IF Len(ps) >= config.maxParticles THEN Pop(ps) ELSE ps

\* (variant: the id is the particle's index in the array)
NewParticle_IndexId(position, vel) ==
    [id |-> Len(particles),
     position |-> position,
     oldPosition |-> Vec2Sub(position, vel),
     velocity |-> vel,
     acceleration |-> Vec2Create(0, 0),
     mass |-> 1,
     radius |-> config.particleRadius,
     life |-> config.particleLifetime,
     maxLife |-> config.particleLifetime,
     fixed |-> FALSE]

\* createParticle, lines 34-46: the new particle (color is never read by the simulation)
NewParticle(position, vel) ==
    [id |-> nextId,
     position |-> position,
     oldPosition |-> Vec2Sub(position, vel),
     velocity |-> vel,
     acceleration |-> Vec2Create(0, 0),
     mass |-> 1,
     radius |-> config.particleRadius,
     life |-> config.particleLifetime,
     maxLife |-> config.particleLifetime,
     fixed |-> FALSE]

\* (variant: unshift instead of push)
Insert_Front(ps, particle) == <<particle>> \o ps

\* createParticle, line 48: this.particles.push(particle)
Insert(ps, particle) == Append(ps, particle)

\* (variant: the particle is put on the wall and oldPosition is left alone)
ConstrainAxis_NoBounce(pos, old, radius, limit) ==
    IF pos < radius
    THEN [pos |-> radius, old |-> old]
    ELSE IF pos > limit - radius
    THEN [pos |-> limit - radius, old |-> old]
    ELSE [pos |-> pos, old |-> old]

\* (variant: the far wall is not checked)
ConstrainAxis_NearOnly(pos, old, radius, limit) ==
    IF pos < radius
    THEN [pos |-> radius,
          old |-> radius + Quot((radius - old) * RestitutionNum, RestitutionDen)]
    ELSE [pos |-> pos, old |-> old]

\* applyConstraints on one axis: pos and old are the coordinates after the move,
\* limit is this.width or this.height
ConstrainAxis(pos, old, radius, limit) ==
    IF pos < radius
    THEN [pos |-> radius,
          old |-> radius + Quot((radius - old) * RestitutionNum, RestitutionDen)]
    ELSE IF pos > limit - radius
    THEN [pos |-> limit - radius,
          old |-> (limit - radius)
                  + Quot(((limit - radius) - old) * RestitutionNum, RestitutionDen)]
    ELSE [pos |-> pos, old |-> old]

ApplyConstraints(p) ==
    LET cx == ConstrainAxis(p.position.x, p.oldPosition.x, p.radius, width)
        cy == ConstrainAxis(p.position.y, p.oldPosition.y, p.radius, height)
    IN  [p EXCEPT !.position = [x |-> cx.pos, y |-> cy.pos],
                  !.oldPosition = [x |-> cx.old, y |-> cy.old]]

\* (variant: life is decremented twice)
Age_Twice(p, dt) == [p EXCEPT !.life = @ - 2 * dt]

\* update, line 90: particle.life -= dt
Age(p, dt) == [p EXCEPT !.life = @ - dt]

\* (variant: the fixed flag is not read)
Integrate_IgnoresFixed(p, dt, fields) ==
    LET pos == p.position
        oldPos == p.oldPosition
        velocity == Vec2Sub(pos, oldPos)
        dampedVelocity == Vec2Mult(velocity, config.friction, 100)
        acceleration == CalculateForces(p, fields)
        dtSq == dt * dt
        moved == [p EXCEPT
                    !.position = [x |-> pos.x + dampedVelocity.x + acceleration.x * dtSq,
                                  y |-> pos.y + dampedVelocity.y + acceleration.y * dtSq],
                    !.oldPosition = pos,
                    !.velocity = IF dt * 10000 > 1 THEN Vec2Mult(velocity, 1, dt) ELSE @]
    IN  Age(ApplyConstraints(moved), dt)

\* update, lines 59-91: the loop body for one particle
Integrate(p, dt, fields) ==
    IF p.fixed THEN p
    ELSE
    LET pos == p.position
        oldPos == p.oldPosition
        velocity == Vec2Sub(pos, oldPos)
        dampedVelocity == Vec2Mult(velocity, config.friction, 100)
        acceleration == CalculateForces(p, fields)
        dtSq == dt * dt
        moved == [p EXCEPT
                    !.position = [x |-> pos.x + dampedVelocity.x + acceleration.x * dtSq,
                                  y |-> pos.y + dampedVelocity.y + acceleration.y * dtSq],
                    !.oldPosition = pos,
                    !.velocity = IF dt * 10000 > 1 THEN Vec2Mult(velocity, 1, dt) ELSE @]
    IN  Age(ApplyConstraints(moved), dt)

\* (variant: filter keeps life >= 0)
RemoveDead_KeepZero(ps) == SelectSeq(ps, LAMBDA p : p.life >= 0)

\* update, line 94: this.particles.filter(p => p.life > 0)
RemoveDead(ps) == SelectSeq(ps, LAMBDA p : p.life > 0)

\* update, lines 59-94: what update(dt, fields) makes of the particles ps
UpdateOf(ps, dt, fields) ==
    RemoveDead([i \in 1..Len(ps) |-> Integrate(ps[i], dt, fields)])

\* update, lines 59-94: the particles after update(dt, fields)
UpdateResult(dt, fields) == UpdateOf(particles, dt, fields)

Ids(ps) == {ps[i].id : i \in 1..Len(ps)}

\* lastOp: the call, its dt, whether createParticle found the system at capacity,
\* the id of the particle it returned and the ids it evicted; the key and the value
\* updateConfig was given, whether that value was a finite number and whether it
\* passed the validation
NoOp == [op |-> "new", dt |-> 0, atCap |-> FALSE, ret |-> 0 - 1, evicted |-> {},
         key |-> "", value |-> 0, finite |-> TRUE, accepted |-> FALSE]

CreateParticle(position, vel) ==
    /\ nextId < MaxIds
    /\ LET full == Len(particles) >= config.maxParticles
           particle == NewParticle(position, vel)
       IN  /\ particles' = Insert(Evict(particles), particle)
           /\ lastOp' = [NoOp EXCEPT !.op = "createParticle", !.atCap = full,
                                     !.ret = particle.id,
                                     !.evicted = Ids(particles) \ Ids(Evict(particles))]
           /\ elapsed' = [id \in DOMAIN elapsed |->
                            IF id \in Ids(particles') THEN elapsed[id] ELSE 0]
           /\ pinned' = [id \in DOMAIN pinned |-> id \in Ids(particles') /\ pinned[id]]
           /\ issued' = Append(issued, particle.id)
    /\ nextId' = nextId + 1
    /\ UNCHANGED <<config, width, height>>
    /\ UNCHANGED engVars
    /\ UNCHANGED gameVars

\* (variant: update switches the fields it has applied off)
Update_SwitchesOff(dt, fields) ==
    /\ particles' = UpdateResult(dt, fields)
    /\ lastOp' = [NoOp EXCEPT !.op = "update", !.dt = dt]
    /\ elapsed' = [id \in DOMAIN elapsed |->
                     IF id \in Ids(particles')
                     THEN Min(elapsed[id] + dt, config.particleLifetime)
                     ELSE 0]
    /\ pinned' = [id \in DOMAIN pinned |->
                    /\ id \in Ids(particles')
                    /\ \/ pinned[id]
                       \/ dt > 0 /\ \E i \in 1..Len(particles) :
                                        particles[i].id = id /\ particles[i].fixed]
    /\ UNCHANGED <<nextId, config, width, height, issued>>
    /\ UNCHANGED engVars
    /\ gameFields' = [i \in 1..Len(fields) |-> [fields[i] EXCEPT !.active = FALSE]]
    /\ UNCHANGED <<nextFieldId, fieldIssued, playVars, busVars>>

\* update, lines 55-95
Update(dt, fields) ==
    /\ particles' = UpdateResult(dt, fields)
    /\ lastOp' = [NoOp EXCEPT !.op = "update", !.dt = dt]
    /\ elapsed' = [id \in DOMAIN elapsed |->
                     IF id \in Ids(particles')
                     THEN Min(elapsed[id] + dt, config.particleLifetime)
                     ELSE 0]
    /\ pinned' = [id \in DOMAIN pinned |->
                    /\ id \in Ids(particles')
                    /\ \/ pinned[id]
                       \/ dt > 0 /\ \E i \in 1..Len(particles) :
                                        particles[i].id = id /\ particles[i].fixed]
    /\ UNCHANGED <<nextId, config, width, height, issued>>
    /\ UNCHANGED engVars
    /\ UNCHANGED gameVars

\* getParticles() hands out the live array: a caller may set a particle's fixed flag
SetFixed(i, b) ==
    /\ i \in 1..Len(particles)
    /\ particles[i].fixed # b
    /\ particles' = [particles EXCEPT ![i].fixed = b]
    /\ lastOp' = [NoOp EXCEPT !.op = "setFixed"]
    /\ UNCHANGED <<nextId, config, width, height, elapsed, pinned, issued>>
    /\ UNCHANGED engVars
    /\ UNCHANGED gameVars

Clear ==
    /\ particles' = <<>>
    /\ lastOp' = [NoOp EXCEPT !.op = "clear"]
    /\ elapsed' = [id \in DOMAIN elapsed |-> 0]
    /\ pinned' = [id \in DOMAIN pinned |-> FALSE]
    /\ UNCHANGED <<nextId, config, width, height, issued>>
    /\ UNCHANGED engVars
    /\ UNCHANGED gameVars

\* (variant: resize also brings the particles inside the new bounds)
Resize_Constrains(w, h) ==
    /\ width' = w
    /\ height' = h
    /\ particles' = [i \in 1..Len(particles) |->
                       LET p == particles[i]
                           cx == ConstrainAxis(p.position.x, p.oldPosition.x, p.radius, w)
                           cy == ConstrainAxis(p.position.y, p.oldPosition.y, p.radius, h)
                       IN  [p EXCEPT !.position = [x |-> cx.pos, y |-> cy.pos],
                                     !.oldPosition = [x |-> cx.old, y |-> cy.old]]]
    /\ lastOp' = [NoOp EXCEPT !.op = "resize"]
    /\ UNCHANGED <<nextId, config, elapsed, pinned, issued>>
    /\ UNCHANGED engVars
    /\ UNCHANGED gameVars

\* resize, lines 198-201
Resize(w, h) ==
    /\ width' = w
    /\ height' = h
    /\ lastOp' = [NoOp EXCEPT !.op = "resize"]
    /\ UNCHANGED <<particles, nextId, config, elapsed, pinned, issued>>
    /\ UNCHANGED engVars
    /\ UNCHANGED gameVars

\* the caller changes the list it hands to update (in Game: createField and the
\* 'clear' tool, between ticks)
SetFields(fieldList) ==
    /\ gameFields' = fieldList
    /\ lastOp' = [NoOp EXCEPT !.op = "setFields"]
    /\ UNCHANGED <<particles, nextId, config, width, height, elapsed, pinned, issued>>
    /\ UNCHANGED <<nextFieldId, fieldIssued, playVars, busVars>>
    /\ UNCHANGED engVars

\* new Game(...): the configuration object (src/src/core/Game.ts:52-61), with the
\* lengths and times scaled to the grid; maxParticles is the capacity M
InitConfig(M) ==
    [gravity |-> 1, friction |-> 98, maxParticles |-> M,
     particleRadius |-> 1, particleLifetime |-> 3,
     fieldStrength |-> 6, fieldRadius |-> 4]

\* new ParticleSystem(config, width, height)
InitWith(capacities, dims) ==
    /\ particles = <<>>
    /\ nextId = 0
    /\ \E M \in capacities : config = InitConfig(M)
    /\ \E d \in dims : width = d.width /\ height = d.height
    /\ lastOp = NoOp
    /\ elapsed = [id \in 0..(MaxIds - 1) |-> 0]
    /\ pinned = [id \in 0..(MaxIds - 1) |-> FALSE]
    /\ issued = <<>>

NextWith(spawns, dts, fieldLists, dims) ==
    \/ \E s \in spawns : CreateParticle(s.position, s.vel)
    \/ \E dt \in dts : Update(dt, gameFields)
    \/ \E fieldList \in fieldLists : SetFields(fieldList)
    \/ \E i \in 1..MaxParticles, b \in BOOLEAN : SetFixed(i, b)
    \/ Clear
    \/ \E d \in dims : Resize(d.width, d.height)

----------------------------------------------------------------------------
\* Engine

\* an invocation of a callback; stop tells whether the callback has stopped the engine
UpdateCall(stopCalled) == [kind |-> "update", dt |-> FixedDelta, stop |-> stopCalled]
RenderCall == [kind |-> "render", dt |-> 0, stop |-> FALSE]

\* loop, line 49: Math.min((currentTime - this.lastTime) / 1000, 0.1)
ClampDelta(t, lt) == Min(t - lt, MaxDeltaTime)

\* (variant: render is not invoked)
RenderCallback_Skipped(log) == log

\* loop, line 61: this.renderCallback()
RenderCallback(log) == Append(log, RenderCall)

\* loop, lines 47-52, entered with this.running true: t is currentTime and lt the
\* value of this.lastTime when the call begins
LoopHead(t, lt) ==
    /\ pending' = pending + 1
    /\ currentTime' = t
    /\ deltaTime' = ClampDelta(t, lt)
    /\ lastTime' = t
    /\ accBefore' = accumulator
    /\ accumulator' = accumulator + ClampDelta(t, lt)
    /\ frameLog' = <<>>
    /\ pc' = "drain"

\* start() while stopped, lines 28-31; loop(this.lastTime) runs inside the call
StartFresh ==
    /\ ~running
    /\ pending + ready < MaxPending
    /\ running' = TRUE
    /\ lastFpsUpdate' = clock
    /\ LoopHead(clock, clock)
    /\ caller' = "start"
    /\ engOp' = "starting"
    /\ windowFrames' = 0
    /\ UNCHANGED <<fps, frameCount, clock, frameTime, ready, closedFrames>>
    /\ UNCHANGED psVars
    /\ UNCHANGED gameVars

\* start() while running, line 26
StartNoop ==
    /\ running
    /\ engOp' = "start_noop"
    /\ UNCHANGED <<running, lastTime, accumulator, fps, frameCount, lastFpsUpdate, pc,
                   currentTime, deltaTime, caller, clock, frameTime, pending, ready,
                   accBefore, frameLog, windowFrames, closedFrames>>
    /\ UNCHANGED psVars
    /\ UNCHANGED gameVars

\* (variant: start() without the running check)
Start_Unguarded ==
    /\ pc = "idle"
    /\ pending + ready < MaxPending
    /\ running' = TRUE
    /\ lastFpsUpdate' = clock
    /\ LoopHead(clock, clock)
    /\ caller' = "start"
    /\ engOp' = IF running THEN "start_noop" ELSE "starting"
    /\ windowFrames' = 0
    /\ UNCHANGED <<fps, frameCount, clock, frameTime, ready, closedFrames>>
    /\ UNCHANGED psVars
    /\ UNCHANGED gameVars

Start ==
    /\ pc = "idle"
    /\ (StartNoop \/ StartFresh)

\* stop(), called between loop calls
Stop ==
    /\ pc = "idle"
    /\ running' = FALSE
    /\ engOp' = "stop"
    /\ UNCHANGED <<lastTime, accumulator, fps, frameCount, lastFpsUpdate, pc,
                   currentTime, deltaTime, caller, clock, frameTime, pending, ready,
                   accBefore, frameLog, windowFrames, closedFrames>>
    /\ UNCHANGED psVars
    /\ UNCHANGED gameVars

\* (variant: loop without the running check of line 45)
FrameCallback_Unchecked ==
    /\ pc = "idle"
    /\ ready > 0
    /\ ready' = ready - 1
    /\ LoopHead(frameTime, lastTime)
    /\ caller' = "raf"
    /\ engOp' = "in_frame"
    /\ UNCHANGED <<running, fps, frameCount, lastFpsUpdate, clock, frameTime,
                   windowFrames, closedFrames>>
    /\ UNCHANGED psVars
    /\ UNCHANGED gameVars

\* the browser runs one callback of the current display frame: loop(frameTime)
FrameCallback ==
    /\ pc = "idle"
    /\ ready > 0
    /\ ready' = ready - 1
    /\ IF ~running
       THEN /\ engOp' = "frame_skipped"
            /\ UNCHANGED <<running, lastTime, accumulator, fps, frameCount,
                           lastFpsUpdate, pc, currentTime, deltaTime, caller, clock,
                           frameTime, pending, accBefore, frameLog, windowFrames, closedFrames>>
       ELSE /\ LoopHead(frameTime, lastTime)
            /\ caller' = "raf"
            /\ engOp' = "in_frame"
            /\ UNCHANGED <<running, fps, frameCount, lastFpsUpdate, clock, frameTime,
                   windowFrames, closedFrames>>
    /\ UNCHANGED psVars
    /\ UNCHANGED gameVars

\* (variant: the loop call returns as soon as an update has called stop())
DrainStep_Aborts(stopCalled) ==
    /\ pc = "drain"
    /\ accumulator >= FixedDelta
    /\ frameLog' = Append(frameLog, UpdateCall(running /\ stopCalled))
    /\ running' = (running /\ ~stopCalled)
    /\ accumulator' = accumulator - FixedDelta
    /\ pc' = IF stopCalled THEN "idle" ELSE pc
    /\ UNCHANGED <<lastTime, fps, frameCount, lastFpsUpdate, currentTime, deltaTime,
                   caller, clock, frameTime, pending, ready, engOp, accBefore,
                   windowFrames, closedFrames>>
    /\ UNCHANGED psVars
    /\ UNCHANGED gameVars

\* loop, lines 55-58: one turn of the while loop; the update callback may call stop()
DrainStep(stopCalled) ==
    /\ pc = "drain"
    /\ accumulator >= FixedDelta
    /\ frameLog' = Append(frameLog, UpdateCall(running /\ stopCalled))
    /\ running' = (running /\ ~stopCalled)
    /\ accumulator' = accumulator - FixedDelta
    /\ UNCHANGED <<lastTime, fps, frameCount, lastFpsUpdate, pc, currentTime, deltaTime,
                   caller, clock, frameTime, pending, ready, engOp, accBefore,
                   windowFrames, closedFrames>>
    /\ UNCHANGED psVars
    /\ UNCHANGED gameVars

\* loop, lines 60-69: the while loop is left, render and the FPS counter
RenderStep ==
    /\ pc = "drain"
    /\ accumulator < FixedDelta
    /\ frameLog' = RenderCallback(frameLog)
    /\ IF currentTime - lastFpsUpdate >= FpsWindow
       THEN /\ fps' = frameCount + 1
            /\ frameCount' = 0
            /\ lastFpsUpdate' = currentTime
            /\ closedFrames' = windowFrames + 1
            /\ windowFrames' = 0
       ELSE /\ frameCount' = frameCount + 1
            /\ windowFrames' = windowFrames + 1
            /\ UNCHANGED <<fps, lastFpsUpdate, closedFrames>>
    /\ pc' = "idle"
    /\ engOp' = IF caller = "start" THEN "start" ELSE "frame"
    /\ UNCHANGED <<running, lastTime, accumulator, currentTime, deltaTime, caller, clock,
                   frameTime, pending, ready, accBefore>>
    /\ UNCHANGED psVars
    /\ UNCHANGED gameVars

\* time passes
AdvanceClock(t) ==
    /\ pc = "idle"
    /\ t > clock
    /\ clock' = t
    /\ engOp' = "clock"
    /\ UNCHANGED <<running, lastTime, accumulator, fps, frameCount, lastFpsUpdate, pc,
                   currentTime, deltaTime, caller, frameTime, pending, ready,
                   accBefore, frameLog, windowFrames, closedFrames>>
    /\ UNCHANGED psVars
    /\ UNCHANGED gameVars

\* the browser begins to run the callbacks requested for the display frame of
\* timestamp t; handlers that ran since t have read a later performance.now()
BeginFrame(t) ==
    /\ pc = "idle"
    /\ ready = 0
    /\ pending > 0
    /\ frameTime < t /\ t <= clock /\ clock - t <= MaxSkew
    /\ frameTime' = t
    /\ ready' = pending
    /\ pending' = 0
    /\ engOp' = "begin_frame"
    /\ UNCHANGED <<running, lastTime, accumulator, fps, frameCount, lastFpsUpdate, pc,
                   currentTime, deltaTime, caller, clock, accBefore, frameLog, windowFrames, closedFrames>>
    /\ UNCHANGED psVars
    /\ UNCHANGED gameVars

----------------------------------------------------------------------------
\* Engine: the while loop of lines 55-58 in IEEE double arithmetic

\* The doubles within a few units of a multiple of fixedDelta: Double(n, e) is the
\* number n * fl(1/60) + e * 2^-58 s.  fl(1/60) = 4803839602528529 * 2^-58 and
\* fl(0.1) = 28823037615171176 * 2^-58 = 6 * fl(1/60) + 2 * 2^-58.
Double(n, e) == [n |-> n, e |-> e]

\* the doubles in [2^-6, 2^-5) are 2^-58 apart, those in [2^-5, 2^-4) are 2 * 2^-58
\* apart and those in [2^-4, 2^-3) are 4 * 2^-58 apart; fl(1/60) = 1.0667 * 2^-6
DoubleSpacing(v) == IF v.n <= 1 THEN 1 ELSE IF v.n <= 3 THEN 2 ELSE 4

\* round to nearest, ties to even, of the exact result v of an addition or subtraction
DoubleRound(v) ==
    LET spacing == DoubleSpacing(v)
        units == v.n * FixedDeltaMod8 + v.e
        above == units % spacing
        down == v.e - above
        up == down + spacing
    IN  IF above = 0 THEN v
        ELSE IF 2 * above < spacing THEN Double(v.n, down)
        ELSE IF 2 * above > spacing THEN Double(v.n, up)
        ELSE IF ((units - above) \div spacing) % 2 = 0 THEN Double(v.n, down)
        ELSE Double(v.n, up)

DoubleAdd(a, b) == DoubleRound(Double(a.n + b.n, a.e + b.e))
DoubleSub(a, b) == DoubleRound(Double(a.n - b.n, a.e - b.e))
DoubleGeq(a, b) == a.n > b.n \/ (a.n = b.n /\ a.e >= b.e)

\* this.fixedDelta and the clamp 0.1 of line 49
FixedDeltaDouble == Double(1, 0)
ClampDouble == Double(MaxDeltaTime \div FixedDelta, ClampExcess)

\* the accumulator when a frame begins: within MaxUlps units of 0 or of fixedDelta
DoubleAccumulators ==
    {Double(0, e) : e \in 0..MaxUlps} \cup {Double(1, 0 - e) : e \in 1..MaxUlps}

\* loop(frameTime) while running, lines 47-52, after a gap of 0 or of more than 0.1 s
FrameCallbackDouble ==
    /\ pc = "idle"
    /\ ready > 0
    /\ running
    /\ frameTime = lastTime \/ frameTime - lastTime > MaxDeltaTime
    /\ ready' = ready - 1
    /\ pending' = pending + 1
    /\ currentTime' = frameTime
    /\ deltaTime' = IF frameTime = lastTime THEN Double(0, 0) ELSE ClampDouble
    /\ lastTime' = frameTime
    /\ accBefore' = accumulator
    /\ accumulator' = DoubleAdd(accumulator, deltaTime')
    /\ frameLog' = <<>>
    /\ pc' = "drain"
    /\ caller' = "raf"
    /\ engOp' = "in_frame"
    /\ UNCHANGED <<running, fps, frameCount, lastFpsUpdate, clock, frameTime,
                   windowFrames, closedFrames>>
    /\ UNCHANGED psVars
    /\ UNCHANGED gameVars

\* loop, lines 55-58: one turn of the while loop
DrainStepDouble(stopCalled) ==
    /\ pc = "drain"
    /\ DoubleGeq(accumulator, FixedDeltaDouble)
    /\ frameLog' = Append(frameLog, UpdateCall(running /\ stopCalled))
    /\ running' = (running /\ ~stopCalled)
    /\ accumulator' = DoubleSub(accumulator, FixedDeltaDouble)
    /\ UNCHANGED <<lastTime, fps, frameCount, lastFpsUpdate, pc, currentTime, deltaTime,
                   caller, clock, frameTime, pending, ready, engOp, accBefore,
                   windowFrames, closedFrames>>
    /\ UNCHANGED psVars
    /\ UNCHANGED gameVars

\* loop, lines 60-69
RenderStepDouble ==
    /\ pc = "drain"
    /\ ~DoubleGeq(accumulator, FixedDeltaDouble)
    /\ frameLog' = RenderCallback(frameLog)
    /\ IF currentTime - lastFpsUpdate >= FpsWindow
       THEN /\ fps' = frameCount + 1
            /\ frameCount' = 0
            /\ lastFpsUpdate' = currentTime
            /\ closedFrames' = windowFrames + 1
            /\ windowFrames' = 0
       ELSE /\ frameCount' = frameCount + 1
            /\ windowFrames' = windowFrames + 1
            /\ UNCHANGED <<fps, lastFpsUpdate, closedFrames>>
    /\ pc' = "idle"
    /\ engOp' = "frame"
    /\ UNCHANGED <<running, lastTime, accumulator, currentTime, deltaTime, caller, clock,
                   frameTime, pending, ready, accBefore>>
    /\ UNCHANGED psVars
    /\ UNCHANGED gameVars

\* a running engine between two frames: a callback is ready to run, the last loop
\* call was at lastTime and the display frame about to be run is that one or a later one
DoubleInit ==
    /\ running = TRUE
    /\ lastTime \in {2, 7}
    /\ accumulator \in DoubleAccumulators
    /\ fps = InitialFps
    /\ frameCount \in {1, 2}
    /\ lastFpsUpdate = 2
    /\ pc = "idle"
    /\ currentTime = lastTime
    /\ deltaTime = Double(0, 0)
    /\ caller = "raf"
    /\ clock = 135
    /\ frameTime \in {lastTime, 25, 130}
    /\ pending = 0
    /\ ready = 1
    /\ engOp = "begin_frame"
    /\ accBefore = Double(0, 0)
    /\ frameLog = <<>>
    /\ windowFrames = frameCount
    /\ closedFrames = 0

DoubleNext ==
    \/ FrameCallbackDouble
    \/ \E stopCalled \in BOOLEAN : DrainStepDouble(stopCalled)
    \/ RenderStepDouble

----------------------------------------------------------------------------
\* Game

\* createField, lines 200-208 (color is never read by the simulation)
NewField(type, position) ==
    [id |-> nextFieldId, type |-> type, position |-> position,
     strength |-> config.fieldStrength, radius |-> config.fieldRadius, active |-> TRUE]

\* (variant: pop() instead of shift(), the newest field makes room)
EvictField_Newest(fields) ==
    IF Len(fields) >= MaxFields THEN SubSeq(fields, 1, Len(fields) - 1) ELSE fields

\* createField, lines 188-191: this.fields.shift() when MAX_FIELDS are held
EvictField(fields) == IF Len(fields) >= MaxFields THEN Tail(fields) ELSE fields

\* createField(type, position), called by the mousedown handler for the field tools
CreateField(type, position) ==
    /\ nextFieldId < MaxFieldCalls
    /\ gameFields' = Append(EvictField(gameFields), NewField(type, position))
    /\ fieldIssued' = Append(fieldIssued, NewField(type, position).id)
    /\ nextFieldId' = nextFieldId + 1
    /\ lastOp' = [NoOp EXCEPT !.op = "createField", !.atCap = Len(gameFields) >= MaxFields]
    /\ UNCHANGED <<particles, nextId, config, width, height, elapsed, pinned, issued>>
    /\ UNCHANGED engVars
    /\ UNCHANGED <<playVars, busVars>>

\* every kind of number on two sliders, and the capacity lowered to 0 and raised again
SliderInputs ==
    { <<"maxParticles", Number(0)>>, <<"maxParticles", Number(1)>>,
      <<"maxParticles", Number(MaxParticles)>>,
      <<"gravity", NotANumber>>, <<"gravity", PlusInfinity>>,
      <<"gravity", MinusInfinity>>, <<"gravity", Number(0 - 1)>>,
      <<"gravity", Number(2)>>, <<"particleLifetime", Number(0 - 3)>>,
      <<"particleLifetime", NotANumber>> }

\* (variant: the value is stored without validation)
UpdateConfig_Unchecked(key, value) ==
    /\ config' = [config EXCEPT ![key] = value.n]
    /\ lastOp' = [NoOp EXCEPT !.op = "updateConfig", !.key = key, !.value = value.n,
                              !.finite = value.finite,
                              !.accepted = ~(~value.finite \/ value.n < 0)]
    /\ UNCHANGED <<particles, nextId, width, height, elapsed, pinned, issued>>
    /\ UNCHANGED engVars
    /\ UNCHANGED gameVars

\* (variant: the Game writes to a copy of the object the ParticleSystem holds)
UpdateConfig_Copy(key, value) ==
    /\ config' = config
    /\ lastOp' = [NoOp EXCEPT !.op = "updateConfig", !.key = key, !.value = value.n,
                              !.finite = value.finite,
                              !.accepted = ~(~value.finite \/ value.n < 0)]
    /\ UNCHANGED <<particles, nextId, width, height, elapsed, pinned, issued>>
    /\ UNCHANGED engVars
    /\ UNCHANGED gameVars

\* updateConfig(key, value), lines 333-342: state.config is the object handed to the
\* ParticleSystem (lines 63 and 70), the variable config
UpdateConfig(key, value) ==
    /\ config' = IF ~value.finite \/ value.n < 0
                 THEN config
                 ELSE [config EXCEPT ![key] = value.n]
    /\ lastOp' = [NoOp EXCEPT !.op = "updateConfig", !.key = key, !.value = value.n,
                              !.finite = value.finite,
                              !.accepted = ~(~value.finite \/ value.n < 0)]
    /\ UNCHANGED <<particles, nextId, width, height, elapsed, pinned, issued>>
    /\ UNCHANGED engVars
    /\ UNCHANGED gameVars

\* setTool('clear'), lines 321-324
ClearTool ==
    /\ particles' = <<>>
    /\ gameFields' = <<>>
    /\ lastOp' = [NoOp EXCEPT !.op = "clearTool"]
    /\ elapsed' = [id \in DOMAIN elapsed |-> 0]
    /\ pinned' = [id \in DOMAIN pinned |-> FALSE]
    /\ UNCHANGED <<nextId, config, width, height, issued>>
    /\ UNCHANGED <<nextFieldId, fieldIssued, playVars, busVars>>
    /\ UNCHANGED engVars

\* (variant: the tick runs while paused)
SkipsTick_Never == FALSE

\* update, line 99: if (this.state.isPaused) return
SkipsTick == isPaused

\* handleToolAction while the pointer is down (lines 107-109, 147-149): the particle
\* tool is held
ToolHeld == isMouseDown /\ mousePosition # NoPosition /\ activeTool = "particle"

\* handleToolAction, line 149: the timer has reached 0.03 s after dt more
SpawnDue(dt) ==
    ToolHeld /\ (particleSpawnTimer + dt) * SpawnTimerDen >= SpawnTimerNum

\* update(dt), lines 98-125, called by the Engine with its fixedDelta; vel is the
\* velocity createParticle draws.  The handlers of 'update' and 'progression' and the
\* ProgressionSystem are outside the simulation.
GameUpdate(dt, vel) ==
    IF SkipsTick
    THEN /\ lastOp' = [NoOp EXCEPT !.op = "gameUpdate", !.dt = dt]
         /\ UNCHANGED <<particles, nextId, config, width, height, elapsed, pinned, issued>>
         /\ UNCHANGED engVars
         /\ UNCHANGED gameVars
    ELSE /\ gameTime < MaxGameTime
         /\ SpawnDue(dt) => nextId < MaxIds
         /\ gameTime' = gameTime + dt
         /\ particleSpawnTimer' = IF ~ToolHeld THEN particleSpawnTimer
                                  ELSE IF SpawnDue(dt) THEN 0
                                  ELSE particleSpawnTimer + dt
         /\ LET spawned == IF SpawnDue(dt)
                           THEN Insert(Evict(particles), NewParticle(mousePosition, vel))
                           ELSE particles
            IN  /\ particles' = UpdateOf(spawned, dt, gameFields)
                /\ pinned' = [id \in DOMAIN pinned |->
                                /\ id \in Ids(particles')
                                /\ \/ pinned[id]
                                   \/ dt > 0 /\ \E i \in 1..Len(spawned) :
                                                    spawned[i].id = id /\ spawned[i].fixed]
         /\ elapsed' = [id \in DOMAIN elapsed |->
                          IF id \in Ids(particles')
                          THEN Min(elapsed[id] + dt, config.particleLifetime)
                          ELSE 0]
         /\ nextId' = IF SpawnDue(dt) THEN nextId + 1 ELSE nextId
         /\ issued' = IF SpawnDue(dt) THEN Append(issued, nextId) ELSE issued
         /\ stateParticles' = particles'
         /\ stats' = [fps |-> fps, particleCount |-> Len(particles'),
                      fieldCount |-> Len(gameFields)]
         /\ lastOp' = [NoOp EXCEPT !.op = "gameUpdate", !.dt = dt]
         /\ UNCHANGED <<config, width, height>>
         /\ UNCHANGED engVars
         /\ UNCHANGED <<gameFields, nextFieldId, fieldIssued, isPaused, activeTool,
                        isMouseDown, mousePosition, busVars>>

\* render(), lines 130-137: draws state.particles and this.fields
GameRender ==
    /\ lastOp' = [NoOp EXCEPT !.op = "render"]
    /\ UNCHANGED <<particles, nextId, config, width, height, elapsed, pinned, issued>>
    /\ UNCHANGED engVars
    /\ UNCHANGED gameVars

\* setTool(tool), lines 320-328
SetTool(tool) ==
    IF tool = "clear"
    THEN ClearTool
    ELSE /\ activeTool' = tool
         /\ lastOp' = [NoOp EXCEPT !.op = "setTool"]
         /\ UNCHANGED <<particles, nextId, config, width, height, elapsed, pinned, issued>>
         /\ UNCHANGED engVars
         /\ UNCHANGED <<gameFields, nextFieldId, fieldIssued, isPaused, isMouseDown,
                        mousePosition, gameTime, particleSpawnTimer, stateParticles,
                        stats, busVars>>

\* setPaused(paused), lines 347-349
SetPaused(paused) ==
    /\ isPaused' = paused
    /\ lastOp' = [NoOp EXCEPT !.op = "setPaused"]
    /\ UNCHANGED <<particles, nextId, config, width, height, elapsed, pinned, issued>>
    /\ UNCHANGED engVars
    /\ UNCHANGED <<gameFields, nextFieldId, fieldIssued, activeTool, isMouseDown,
                   mousePosition, gameTime, particleSpawnTimer, stateParticles,
                   stats, busVars>>

\* the mousedown handler, lines 245-256
MouseDown(position) ==
    /\ isMouseDown' = TRUE
    /\ mousePosition' = position
    /\ IF activeTool \in {"attractor", "repulsor", "vortex"}
       THEN /\ nextFieldId < MaxFieldIds
            /\ gameFields' = Append(EvictField(gameFields), NewField(activeTool, position))
            /\ fieldIssued' = Append(fieldIssued, nextFieldId)
            /\ nextFieldId' = nextFieldId + 1
       ELSE UNCHANGED <<gameFields, nextFieldId, fieldIssued>>
    /\ lastOp' = [NoOp EXCEPT !.op = "mouseDown"]
    /\ UNCHANGED <<particles, nextId, config, width, height, elapsed, pinned, issued>>
    /\ UNCHANGED engVars
    /\ UNCHANGED <<isPaused, activeTool, gameTime, particleSpawnTimer, stateParticles,
                   stats, busVars>>

\* the mouseup handler, lines 258-261
MouseUp ==
    /\ isMouseDown' = FALSE
    /\ particleSpawnTimer' = 0
    /\ lastOp' = [NoOp EXCEPT !.op = "mouseUp"]
    /\ UNCHANGED <<particles, nextId, config, width, height, elapsed, pinned, issued>>
    /\ UNCHANGED engVars
    /\ UNCHANGED <<gameFields, nextFieldId, fieldIssued, isPaused, activeTool,
                   mousePosition, gameTime, stateParticles, stats, busVars>>

\* the mouseleave handler, lines 270-273
MouseLeave ==
    /\ isMouseDown' = FALSE
    /\ mousePosition' = NoPosition
    /\ lastOp' = [NoOp EXCEPT !.op = "mouseLeave"]
    /\ UNCHANGED <<particles, nextId, config, width, height, elapsed, pinned, issued>>
    /\ UNCHANGED engVars
    /\ UNCHANGED <<gameFields, nextFieldId, fieldIssued, isPaused, activeTool,
                   gameTime, particleSpawnTimer, stateParticles, stats, busVars>>

----------------------------------------------------------------------------
\* EventBus, the handlers of one event; a handler is subscribed once at a time

\* off, lines 471-476: indexOf and splice
OffResult(hs, h) ==
    IF \E i \in 1..Len(hs) : hs[i] = h
    THEN LET index == CHOOSE i \in 1..Len(hs) : hs[i] = h /\ \A j \in 1..(i - 1) : hs[j] # h
         IN  SubSeq(hs, 1, index - 1) \o SubSeq(hs, index + 1, Len(hs))
    ELSE hs

Subscribed(hs) == {hs[i] : i \in 1..Len(hs)}

\* on(event, handler), lines 456-464, between emissions
On(h) ==
    /\ emitIndex = 0
    /\ h \notin Subscribed(handlers)
    /\ handlers' = Append(handlers, h)
    /\ busOp' = "on"
    /\ UNCHANGED <<emitIndex, emitLength, invoked, atStart, removedEarly>>
    /\ UNCHANGED psVars
    /\ UNCHANGED engVars
    /\ UNCHANGED <<gameFields, nextFieldId, fieldIssued, playVars>>

\* the function on() returned for h is called between emissions: off(event, handler)
Off(h) ==
    /\ emitIndex = 0
    /\ handlers' = OffResult(handlers, h)
    /\ busOp' = "off"
    /\ UNCHANGED <<emitIndex, emitLength, invoked, atStart, removedEarly>>
    /\ UNCHANGED psVars
    /\ UNCHANGED engVars
    /\ UNCHANGED <<gameFields, nextFieldId, fieldIssued, playVars>>

\* emit(event, ...), lines 482-487: forEach reads the length of the array and begins
EmitBegin ==
    /\ emitIndex = 0
    /\ emitLength' = Len(handlers)
    /\ emitIndex' = IF Len(handlers) = 0 THEN 0 ELSE 1
    /\ invoked' = <<>>
    /\ atStart' = handlers
    /\ removedEarly' = {}
    /\ busOp' = IF Len(handlers) = 0 THEN "emitted" ELSE "emitting"
    /\ UNCHANGED handlers
    /\ UNCHANGED psVars
    /\ UNCHANGED engVars
    /\ UNCHANGED <<gameFields, nextFieldId, fieldIssued, playVars>>

\* one turn of forEach: the handler at the index, if the array still has that index,
\* is invoked; the handler calls the unsubscribe function of u (0: of nobody)
EmitStep(u) ==
    /\ emitIndex > 0
    /\ IF emitIndex <= Len(handlers)
       THEN /\ invoked' = Append(invoked, handlers[emitIndex])
            /\ handlers' = OffResult(handlers, u)
            /\ removedEarly' = IF u \in Subscribed(handlers) /\ u \notin Subscribed(invoked')
                               THEN removedEarly \cup {u}
                               ELSE removedEarly
       ELSE /\ u = 0
            /\ UNCHANGED <<invoked, handlers, removedEarly>>
    /\ emitIndex' = IF emitIndex = emitLength THEN 0 ELSE emitIndex + 1
    /\ busOp' = IF emitIndex = emitLength THEN "emitted" ELSE "emitting"
    /\ UNCHANGED <<emitLength, atStart>>
    /\ UNCHANGED psVars
    /\ UNCHANGED engVars
    /\ UNCHANGED <<gameFields, nextFieldId, fieldIssued, playVars>>

BusNext ==
    \/ \E h \in 1..MaxHandlers : On(h)
    \/ \E h \in 1..MaxHandlers : Off(h)
    \/ EmitBegin
    \/ \E u \in 0..MaxHandlers : EmitStep(u)

\* new Game(canvas), lines 23-28 and 65-77; new EventBus()
GameInit ==
    /\ gameFields = <<>>
    /\ nextFieldId = 0
    /\ fieldIssued = <<>>
    /\ isPaused = FALSE
    /\ activeTool = "particle"
    /\ isMouseDown = FALSE
    /\ mousePosition = NoPosition
    /\ gameTime = 0
    /\ particleSpawnTimer = 0
    /\ stateParticles = <<>>
    /\ stats = [fps |-> 0, particleCount |-> 0, fieldCount |-> 0]
    /\ handlers = <<>>
    /\ emitIndex = 0
    /\ emitLength = 0
    /\ invoked = <<>>
    /\ atStart = <<>>
    /\ removedEarly = {}
    /\ busOp = "new"

PlayNext ==
    \/ \E dt \in GameDts, vel \in GameVels : GameUpdate(dt, vel)
    \/ GameRender
    \/ \E tool \in GameTools : SetTool(tool)
    \/ \E paused \in BOOLEAN : SetPaused(paused)
    \/ \E position \in GameFieldPositions : MouseDown(position)
    \/ MouseUp
    \/ MouseLeave

\* new Engine(updateCallback, renderCallback)
EngineInit ==
    /\ running = FALSE
    /\ lastTime = 0
    /\ accumulator = 0
    /\ fps = InitialFps
    /\ frameCount = 0
    /\ lastFpsUpdate = 0
    /\ pc = "idle"
    /\ currentTime = 0
    /\ deltaTime = 0
    /\ caller = "raf"
    /\ clock \in {t \in Instants : \A u \in Instants : t <= u}
    /\ frameTime = 0
    /\ pending = 0
    /\ ready = 0
    /\ engOp = "new"
    /\ accBefore = 0
    /\ frameLog = <<>>
    /\ windowFrames = 0
    /\ closedFrames = 0

EngineNext ==
    \/ Start
    \/ Stop
    \/ FrameCallback
    \/ \E stopCalled \in BOOLEAN : DrainStep(stopCalled)
    \/ RenderStep
    \/ \E t \in Instants : AdvanceClock(t)
    \/ \E t \in Instants : BeginFrame(t)

----------------------------------------------------------------------------
\* Specifications

\* The population of a system of capacity M in 1..MaxParticles
Init == InitWith(1..MaxParticles, PopDims) /\ EngineInit /\ GameInit
Next == NextWith(PopSpawns, PopDts, {<<>>}, PopDims)
Spec == Init /\ [][Next]_vars

\* The motion of the particles of a system of capacity 1
MotionInit == InitWith({1}, MotionDims) /\ EngineInit /\ GameInit
MotionNext == NextWith(MotionSpawns, MotionDts, MotionLists, MotionDims)
MotionSpec == MotionInit /\ [][MotionNext]_vars

\* The forces on the particles of a system of capacity 1 in one viewport, under
\* changing lists of fields
FieldInit == InitWith({1}, PopDims) /\ EngineInit /\ GameInit
FieldNext == NextWith(MotionSpawns, PopDts, ReachLists, PopDims)
FieldSpec == FieldInit /\ [][FieldNext]_vars

\* The free flight of the particles of a system of capacity 1 without fields
FallInit == InitWith({1}, FallDims) /\ EngineInit /\ GameInit
FallNext ==
    \/ \E s \in FallSpawns : CreateParticle(s.position, s.vel)
    \/ \E dt \in PopDts : Update(dt, gameFields)
    \/ \E input \in FallConfigInputs : UpdateConfig(input[1], input[2])
FallSpec == FallInit /\ [][FallNext]_vars

\* The Game: particles and fields created with the tools, ticks, the 'clear' tool
GameSpecInit == InitWith({1}, PopDims) /\ EngineInit /\ GameInit
GameNext ==
    \/ \E s \in GameSpawns : CreateParticle(s.position, s.vel)
    \/ \E dt \in GameDts : Update(dt, gameFields)
    \/ \E type \in GameFieldTypes, position \in GameFieldPositions :
            nextFieldId < MaxFieldIds /\ CreateField(type, position)
    \/ ClearTool
    \/ \E input \in ConfigInputs : UpdateConfig(input[1], input[2])
GameSpec == GameSpecInit /\ [][GameNext]_vars

\* The bounces of the particles of a system of capacity 1 off the walls
BounceInit == InitWith({1}, MotionDims) /\ EngineInit /\ GameInit
BounceNext == NextWith(BounceSpawns, PopDts, {<<>>}, MotionDims)
BounceSpec == BounceInit /\ [][BounceNext]_vars

\* The sliders moved between the calls of a system of capacity MaxParticles
ConfigInit == InitWith({MaxParticles}, PopDims) /\ EngineInit /\ GameInit
ConfigNext ==
    \/ \E s \in PopSpawns : CreateParticle(s.position, s.vel)
    \/ \E dt \in GameDts : Update(dt, gameFields)
    \/ \E input \in SliderInputs : UpdateConfig(input[1], input[2])
ConfigSpec == ConfigInit /\ [][ConfigNext]_vars

\* The Game's list of fields under one field tool held at one place
FieldCapInit == InitWith({1}, PopDims) /\ EngineInit /\ GameInit
FieldCapNext ==
    \/ \E position \in GameFieldPositions : CreateField("repulsor", position)
    \/ ClearTool
FieldCapSpec == FieldCapInit /\ [][FieldCapNext]_vars

\* The Game played: ticks and renders, the tools, the pointer and the pause
PlayInit == InitWith({1}, PopDims) /\ EngineInit /\ GameInit
PlaySpec == PlayInit /\ [][PlayNext]_vars

\* The EventBus: subscriptions, emissions, and handlers that unsubscribe
BusInit == InitWith({1}, PopDims) /\ EngineInit /\ GameInit
BusSpec == BusInit /\ [][BusNext]_vars

\* One frame callback of a running Engine, in double arithmetic
DoubleSpecInit == InitWith({1}, PopDims) /\ DoubleInit /\ GameInit
DoubleSpec == DoubleSpecInit /\ [][DoubleNext]_vars

\* The Engine driven by the browser
EngineSpecInit == InitWith({1}, PopDims) /\ EngineInit /\ GameInit
EngineSpec == EngineSpecInit /\ [][EngineNext]_vars

----------------------------------------------------------------------------
\* Properties of the ParticleSystem

Live == {particles[i] : i \in 1..Len(particles)}

\* C1: for a fixed capacity M >= 1, after any sequence of createParticle, update,
\* clear and resize calls the number of live particles is at most M.
C1_CountBounded == Len(particles) <= config.maxParticles

\* more particles were created than the capacity holds, and a tick has run since
C1_Witness ==
    /\ lastOp.op = "update"
    /\ nextId > config.maxParticles
    /\ Len(particles) = config.maxParticles
    /\ config.maxParticles = MaxParticles

\* C2: createParticle called at capacity leaves exactly M particles live, and the new
\* particle is the one returned and the last element of getParticles().
C2_AtCapacityKeepsNew ==
    (lastOp.op = "createParticle" /\ lastOp.atCap) =>
        /\ Len(particles) = config.maxParticles
        /\ particles[Len(particles)].id = lastOp.ret
        /\ lastOp.ret = nextId - 1

\* M + 1 particles were spawned with no tick in between
C2_Witness ==
    /\ lastOp.op = "createParticle" /\ lastOp.atCap
    /\ config.maxParticles = MaxParticles
    /\ nextId = MaxParticles + 1
    /\ \A p \in Live : p.life = p.maxLife

\* C3: the particle createParticle evicts at capacity is the oldest live one (smallest
\* id): every particle that is live afterwards was created after the evicted one.
C3_EvictsOldest ==
    lastOp.op = "createParticle" =>
        \A e \in lastOp.evicted : \A p \in Live : p.id > e

\* C4: after update returns, every particle lies in [radius, width - radius] x
\* [radius, height - radius], for any positive width and height and any spawn position.
InX(p) == p.radius <= p.position.x /\ p.position.x <= width - p.radius
InY(p) == p.radius <= p.position.y /\ p.position.y <= height - p.radius

C4_Contained == lastOp.op = "update" => \A p \in Live : InX(p) /\ InY(p)

\* C4 as amended: after update returns, every particle whose fixed flag is false lies
\* in [radius, width - radius] on x when width >= 2 * radius, and in
\* [radius, height - radius] on y when height >= 2 * radius.
C4_ContainedWhenRoom ==
    lastOp.op = "update" =>
        \A p \in Live : ~p.fixed =>
            /\ (width >= 2 * p.radius => InX(p))
            /\ (height >= 2 * p.radius => InY(p))

\* a particle spawned outside the viewport was brought to the far wall on x and to the
\* near wall on y
C4_Witness ==
    /\ lastOp.op = "update"
    /\ \E p \in Live : /\ ~p.fixed
                        /\ width >= 2 * p.radius /\ height >= 2 * p.radius
                        /\ p.position.x = width - p.radius
                        /\ p.position.y = p.radius

\* C5: each update with dt > 0 decreases the life of every non-fixed live particle by
\* exactly dt and removes it when its life becomes <= 0; after update no live particle
\* has life <= 0; a removed particle never comes back (the only particle a call can add
\* carries the fresh id nextId, above every id issued before).
C5_Lifetime ==
    /\ [](\A p \in Live : p.id < nextId)
    /\ [][ /\ Ids(particles') \subseteq Ids(particles) \cup {nextId}
           /\ lastOp'.op = "update" =>
                /\ \A q \in {particles'[j] : j \in 1..Len(particles')} : q.life > 0
                /\ lastOp'.dt > 0 =>
                     \A p \in Live : ~p.fixed =>
                        IF p.life - lastOp'.dt > 0
                        THEN \E j \in 1..Len(particles') :
                                /\ particles'[j].id = p.id
                                /\ particles'[j].life = p.life - lastOp'.dt
                        ELSE p.id \notin Ids(particles')
         ]_vars

\* a tick aged one particle and removed another
C5_Witness ==
    /\ lastOp.op = "update" /\ lastOp.dt > 0
    /\ Len(particles) = 1
    /\ nextId = 2
    /\ particles[1].life < particles[1].maxLife
    /\ ~particles[1].fixed

\* C6: every live particle, fixed or not, ages on every tick (life = maxLife minus the
\* time of the ticks since its creation), so it is gone once that time reaches maxLife,
\* i.e. after at most ceil(maxLife / dt) calls of update(dt).
C6_AllParticlesExpire ==
    \A p \in Live : /\ p.life = p.maxLife - elapsed[p.id]
                    /\ elapsed[p.id] < p.maxLife

\* C6 as amended: the same for every particle whose fixed flag was false in all ticks
\* since its creation.
C6_UnfixedParticlesExpire ==
    \A p \in Live : ~pinned[p.id] =>
        /\ p.life = p.maxLife - elapsed[p.id]
        /\ elapsed[p.id] < p.maxLife

\* a never-fixed particle in its last tick beside a fixed one that outlived maxLife
C6_Witness ==
    /\ lastOp.op = "update"
    /\ \E p \in Live : ~pinned[p.id] /\ p.life = 1 /\ elapsed[p.id] = p.maxLife - 1
    /\ \E p \in Live : p.fixed /\ elapsed[p.id] >= p.maxLife

\* the particles in the state after the step
LiveNext == {particles'[j] : j \in 1..Len(particles')}

\* C13: resize changes only the stored bounds (the live set and every particle are as
\* before); no call other than update moves a particle, so one lying outside the new
\* bounds stays there until the next update, after which every particle lies inside.
C13_ResizeThenAllInside ==
    /\ [][lastOp'.op = "resize" => UNCHANGED <<particles, nextId, config>>]_vars
    /\ [][lastOp'.op # "update" =>
            \A p \in Live : \A q \in LiveNext :
                q.id = p.id => q.position = p.position /\ q.oldPosition = p.oldPosition]_vars
    /\ [][(lastOp.op = "resize" /\ lastOp'.op = "update") =>
            \A q \in LiveNext :
                /\ q.radius <= q.position.x /\ q.position.x <= width' - q.radius
                /\ q.radius <= q.position.y /\ q.position.y <= height' - q.radius]_vars

\* C13 as amended: the same, where the update after the resize brings inside every
\* particle whose fixed flag is false, on x when width >= 2 * radius and on y when
\* height >= 2 * radius.
C13_ResizeThenInsideWhenRoom ==
    /\ [][lastOp'.op = "resize" => UNCHANGED <<particles, nextId, config>>]_vars
    /\ [][lastOp'.op # "update" =>
            \A p \in Live : \A q \in LiveNext :
                q.id = p.id => q.position = p.position /\ q.oldPosition = p.oldPosition]_vars
    /\ [][(lastOp.op = "resize" /\ lastOp'.op = "update") =>
            \A q \in LiveNext : ~q.fixed =>
                /\ width' >= 2 * q.radius =>
                     q.radius <= q.position.x /\ q.position.x <= width' - q.radius
                /\ height' >= 2 * q.radius =>
                     q.radius <= q.position.y /\ q.position.y <= height' - q.radius]_vars

\* the viewport was shrunk around a moving particle, which now lies below the floor
C13_Witness ==
    /\ lastOp.op = "resize"
    /\ \E p \in Live : /\ ~p.fixed
                        /\ p.life < p.maxLife
                        /\ height >= 2 * p.radius
                        /\ p.position.y > height - p.radius

\* C14: update(dt, fields) does not modify the list of fields it is given: their
\* number, order, ids, types, positions, strengths, radii and active flags are as before.
C14_FieldsUntouched == [][lastOp'.op = "update" => gameFields' = gameFields]_vars

\* a tick ran with a list of four fields, one of which pushed the particle
C14_Witness ==
    /\ lastOp.op = "update" /\ lastOp.dt > 0
    /\ Len(gameFields) = 4
    /\ \E p \in Live : ~p.fixed /\ p.acceleration = Vec2Create(0, 0) /\ p.life < p.maxLife

\* the list without its i-th field
RemoveAt(fields, i) == SubSeq(fields, 1, i - 1) \o SubSeq(fields, i + 1, Len(fields))

\* the particle lies within the field's radius and off its centre
InReach(p, field) ==
    LET distanceSq == Vec2MagnitudeSq(Vec2Sub(field.position, p.position))
    IN  distanceSq < field.radius * field.radius /\ distanceSq * MinDistSqDen > 1

\* C16: a field whose active flag is false, or whose type is 'directional', adds no
\* force: update with such a field in the list gives the same particles as update with
\* the field removed from the list, for any dt.
C16_InertFieldIgnored ==
    \A i \in 1..Len(gameFields) :
        (~gameFields[i].active \/ gameFields[i].type = "directional") =>
            \A dt \in PopDts :
                UpdateResult(dt, gameFields) = UpdateResult(dt, RemoveAt(gameFields, i))

\* a tick has moved a particle that is within reach of an inactive field and of an
\* active directional field
C16_Witness ==
    /\ lastOp.op = "update" /\ lastOp.dt > 0
    /\ \E p \in Live : \E i, j \in 1..Len(gameFields) :
          /\ ~p.fixed
          /\ ~gameFields[i].active /\ InReach(p, gameFields[i])
          /\ gameFields[j].active /\ gameFields[j].type = "directional"
          /\ InReach(p, gameFields[j])

DistanceSq(p, field) == Vec2MagnitudeSq(Vec2Sub(field.position, p.position))

StrictlyIncreasing(log) == \A i, j \in 1..Len(log) : i < j => log[i] < log[j]

\* C15: every particle gets an id above every id createParticle gave out before, also
\* after evictions, expiries and a clear; the same holds for the fields the Game
\* creates, also after a clear; no id is given out twice, and the two counters are
\* independent: each has advanced once per creation of its own kind.
C15_IdsIncrease ==
    /\ StrictlyIncreasing(issued)
    /\ StrictlyIncreasing(fieldIssued)
    /\ nextId = Len(issued)
    /\ nextFieldId = Len(fieldIssued)

\* three particles were created around an eviction or expiry, and a field was created
\* after the 'clear' tool had removed an earlier one
C15_Witness ==
    /\ lastOp.op = "createField"
    /\ Len(issued) = 3
    /\ Len(fieldIssued) >= 2
    /\ Len(gameFields) = 1
    /\ Len(particles) = 0

\* C18: a gravity or friction value that updateConfig has written between two ticks
\* is the value the very next update computes with: where no wall is touched on y, a
\* particle's new position.y is position.y + (position.y - oldPosition.y) * friction / 100
\* + (gravity + the fields' force on y) * dt^2 with the written value in it.
C18_ConfigUsedByNextUpdate ==
    [][(lastOp.op = "updateConfig" /\ lastOp.accepted /\ lastOp'.op = "update") =>
          LET g == IF lastOp.key = "gravity" THEN lastOp.value ELSE config.gravity
              f == IF lastOp.key = "friction" THEN lastOp.value ELSE config.friction
              dt == lastOp'.dt
          IN  \A p \in Live : \A q \in LiveNext :
                (q.id = p.id /\ ~p.fixed) =>
                    LET y == p.position.y
                             + Quot((p.position.y - p.oldPosition.y) * f, 100)
                             + (g + SumFields(p, gameFields, 1).y) * dt * dt
                    IN  (p.radius <= y /\ y <= height - p.radius) => q.position.y = y
       ]_vars

\* a tick has moved a particle, off the walls, under the gravity and the friction
\* written by updateConfig
C18_Witness ==
    /\ lastOp.op = "update"
    /\ config.gravity = 2 /\ config.friction = 100
    /\ \E p \in Live : /\ ~p.fixed /\ p.life < p.maxLife
                        /\ p.radius < p.position.y /\ p.position.y < height - p.radius
                        /\ p.position.y - p.oldPosition.y >= 2

\* C19: update leaves the position, oldPosition and velocity of a particle whose
\* fixed flag is true as they are, and applies no boundary correction to it, for any
\* dt and any fields.
C19_FixedUntouched ==
    \A p \in Live : p.fixed =>
        \A dt \in MotionDts :
            LET after == UpdateResult(dt, gameFields)
            IN  \E j \in 1..Len(after) :
                    /\ after[j].id = p.id
                    /\ after[j].position = p.position
                    /\ after[j].oldPosition = p.oldPosition
                    /\ after[j].velocity = p.velocity

\* a tick has run over a fixed particle that lies below the floor, within reach of an
\* active field
C19_Witness ==
    /\ lastOp.op = "update" /\ lastOp.dt > 0
    /\ \E p \in Live : /\ p.fixed /\ pinned[p.id]
                        /\ height >= 2 * p.radius /\ ~InY(p)
                        /\ \E i \in 1..Len(gameFields) :
                              /\ gameFields[i].active
                              /\ gameFields[i].type # "directional"
                              /\ InReach(p, gameFields[i])

\* the particle p after n calls of update(dt, fields)
RECURSIVE Ticks(_, _, _)
Ticks(p, dt, n) == IF n = 0 THEN p ELSE Ticks(Integrate(p, dt, gameFields), dt, n - 1)

\* the particle is strictly inside the walls after each of the n ticks, and alive
NoWall(p, dt, n) ==
    /\ n * dt < p.life
    /\ \A k \in 1..n :
          LET q == Ticks(p, dt, k)
          IN  /\ q.radius < q.position.x /\ q.position.x < width - q.radius
              /\ q.radius < q.position.y /\ q.position.y < height - q.radius

\* C20: with no fields and friction = 100, a particle at (x0, y0) with per-tick
\* displacement (vx, v) that touches no wall is, after N calls of update(dt, []), at
\* y = y0 + v0 * t + 0.5 * g * t^2 and x = x0 + vx0 * t, where t = N * dt, v0 = v / dt
\* and vx0 = vx / dt (so v0 * t = N * v); stated with both sides of y doubled.
C20_ClosedForm ==
    (config.friction = 100 /\ gameFields = <<>>) =>
        \A p \in Live : \A dt \in PopDts : \A n \in 1..MaxFallTicks :
            (~p.fixed /\ NoWall(p, dt, n)) =>
                /\ 2 * Ticks(p, dt, n).position.y
                     = 2 * p.position.y + 2 * n * (p.position.y - p.oldPosition.y)
                       + config.gravity * (n * dt) * (n * dt)
                /\ Ticks(p, dt, n).position.x
                     = p.position.x + n * (p.position.x - p.oldPosition.x)

\* C20 as amended: the same with y = y0 + v0 * t + 0.5 * g * t * (t + dt).
C20_VerletForm ==
    (config.friction = 100 /\ gameFields = <<>>) =>
        \A p \in Live : \A dt \in PopDts : \A n \in 1..MaxFallTicks :
            (~p.fixed /\ NoWall(p, dt, n)) =>
                /\ 2 * Ticks(p, dt, n).position.y
                     = 2 * p.position.y + 2 * n * (p.position.y - p.oldPosition.y)
                       + config.gravity * (n * dt) * (n * dt + dt)
                /\ Ticks(p, dt, n).position.x
                     = p.position.x + n * (p.position.x - p.oldPosition.x)

\* a particle created without damping has flown for MaxFallTicks ticks, sideways and
\* down, off the walls
C20_Witness ==
    /\ lastOp.op = "update"
    /\ config.friction = 100
    /\ \E p \in Live :
          /\ ~p.fixed
          /\ p.life = p.maxLife - MaxFallTicks
          /\ p.position.x - p.oldPosition.x # 0
          /\ p.position.y = 1 + (config.gravity * MaxFallTicks * (MaxFallTicks + 1)) \div 2
          /\ p.position.y < height - p.radius

----------------------------------------------------------------------------
\* Properties of the Engine

Updates(log) == {i \in 1..Len(log) : log[i].kind = "update"}
Renders(log) == {i \in 1..Len(log) : log[i].kind = "render"}

\* a loop call that passed the running check has returned
LoopDone == pc = "idle" /\ engOp \in {"start", "frame"}

\* C7: isRunning() is false after construction, true after start(), false after stop();
\* start() while running changes nothing: lastTime and the FPS window are kept, no
\* callback is invoked and no further frame callback is requested.
C7_RunState ==
    /\ [](engOp = "new" => ~running)
    /\ [](engOp = "start" => running)
    /\ [](engOp = "stop" => ~running)
    /\ [][engOp' = "start_noop" =>
            /\ running /\ running'
            /\ UNCHANGED <<lastTime, accumulator, fps, frameCount, lastFpsUpdate, pc,
                           pending, ready, frameLog>>]_vars

\* start() was called on an engine that is running and has drawn frames
C7_Witness ==
    /\ engOp = "start_noop"
    /\ running
    /\ lastTime > lastFpsUpdate
    /\ frameCount > 1
    /\ pending + ready = 1

\* C8: a loop call with accumulator a before and frame time d invokes update exactly
\* floor((a + d) / fixedDelta) times, each with dt = fixedDelta, and leaves the
\* accumulator at a + d minus that many fixedDelta, in [0, fixedDelta).
C8_FixedSteps ==
    LoopDone =>
        /\ Cardinality(Updates(frameLog)) = (accBefore + deltaTime) \div FixedDelta
        /\ \A i \in Updates(frameLog) : frameLog[i].dt = FixedDelta
        /\ accumulator = accBefore + deltaTime - Cardinality(Updates(frameLog)) * FixedDelta
        /\ 0 <= accumulator /\ accumulator < FixedDelta

\* C9: a loop call made while running invokes render exactly once, after all the
\* update invocations of that call (also when there are none); while updates are still
\* being invoked, render has not been.
C9_RenderOnceLast ==
    /\ LoopDone =>
         /\ Cardinality(Renders(frameLog)) = 1
         /\ frameLog[Len(frameLog)].kind = "render"
    /\ pc = "drain" => Renders(frameLog) = {}

\* a frame callback that ran two fixed steps and then rendered
C9_Witness ==
    /\ LoopDone /\ engOp = "frame"
    /\ Cardinality(Updates(frameLog)) = 2
    /\ Len(frameLog) = 3

\* C10: the frame time added to the accumulator lies in [0, 0.1] s for any pair of
\* timestamps, so the accumulator is never negative.
C10_DeltaInRange ==
    /\ 0 <= deltaTime /\ deltaTime <= MaxDeltaTime
    /\ accumulator >= 0

\* C11: a frame callback that the browser runs after stop() was called between frames
\* returns at the running check: it invokes neither update nor render, leaves the
\* accumulator and the FPS counters alone and requests no further callback; while the
\* engine stays stopped no callback is invoked and the requested callbacks only run out.
C11_StoppedFrameReturns ==
    /\ [][(pc = "idle" /\ ~running /\ ready' = ready - 1) =>
            /\ engOp' = "frame_skipped"
            /\ UNCHANGED <<running, lastTime, accumulator, fps, frameCount,
                           lastFpsUpdate, pc, pending, frameLog>>]_vars
    /\ [][(pc = "idle" /\ ~running /\ ~running') =>
            /\ UNCHANGED <<pc, frameLog, accumulator, fps, frameCount, lastFpsUpdate>>
            /\ pending' + ready' <= pending + ready]_vars

\* the engine ran two loop calls and was stopped; the callback it had requested has
\* run and nothing is requested any more
C11_Witness ==
    /\ engOp = "frame_skipped"
    /\ ~running
    /\ pending = 0 /\ ready = 0
    /\ frameCount >= 2
    /\ accumulator = 1

\* C12: getFPS() is 60 until the first window closes; a window closes at the first
\* loop call whose timestamp is at least 1000 ms after the window start, fps then is
\* the number of loop calls made since that window start (the closing one included)
\* and the counter restarts at 0.
C12_FpsCountsWindowFrames ==
    /\ fps = (IF closedFrames = 0 THEN InitialFps ELSE closedFrames)
    /\ LoopDone =>
         IF windowFrames = 0
         THEN frameCount = 0
         ELSE currentTime - lastFpsUpdate < FpsWindow

\* an update callback of the last loop call has stopped the engine
StoppedInUpdate == \E i \in Updates(frameLog) : frameLog[i].stop

\* C24: when the update callback calls stop() during a loop call, the call is not
\* aborted: it goes on invoking update while the accumulator holds a fixed step, then
\* invokes render once and returns with the engine stopped and the accumulator below
\* fixedDelta; the frame callback it had requested then does nothing
C24_StopInsideUpdate ==
    /\ [](LoopDone /\ StoppedInUpdate =>
            /\ ~running
            /\ Cardinality(Renders(frameLog)) = 1
            /\ frameLog[Len(frameLog)].kind = "render"
            /\ accumulator < FixedDelta)
    /\ [][pc = "drain" =>
            /\ Len(frameLog') = Len(frameLog) + 1
            /\ SubSeq(frameLog', 1, Len(frameLog)) = frameLog
            /\ IF accumulator >= FixedDelta
               THEN frameLog'[Len(frameLog')].kind = "update" /\ pc' = "drain"
               ELSE frameLog'[Len(frameLog')].kind = "render" /\ pc' = "idle"]_vars
    /\ [][pc = "idle" /\ StoppedInUpdate /\ ~running /\ ready' = ready - 1 =>
            /\ engOp' = "frame_skipped"
            /\ UNCHANGED <<running, lastTime, accumulator, fps, frameCount,
                           lastFpsUpdate, pc, pending, frameLog>>]_vars

\* the first of three updates of a frame called stop(); the frame went on to the
\* third update and to render, and the callback it had requested has returned at once
C24_Witness ==
    /\ engOp = "frame_skipped"
    /\ ~running
    /\ Len(frameLog) = 4
    /\ frameLog[1].stop
    /\ ~frameLog[2].stop /\ ~frameLog[3].stop
    /\ frameLog[3].kind = "update"
    /\ frameLog[4].kind = "render"
    /\ pending = 0 /\ ready = 0

\* C25: whatever the sequence of start(), stop() and frame callbacks, at most one
\* frame callback is requested or waiting to be run at any time
C25_OnePendingCallback == pending + ready <= 1

\* C27: a frame callback that begins with the accumulator in [0, fixedDelta) invokes
\* update at most 6 times, however long the gap
C27_AtMostSixUpdates ==
    DoubleGeq(accBefore, Double(0, 0)) /\ ~DoubleGeq(accBefore, FixedDeltaDouble) =>
        Cardinality(Updates(frameLog)) <= MaxSteps

----------------------------------------------------------------------------
\* Properties of the Game

\* C21: the Game never holds more than MAX_FIELDS fields; the fields it holds are
\* the most recently placed ones since the last clear, in placement order, and a
\* field placed at capacity leaves MAX_FIELDS fields: only the oldest one made room
C21_OldestFieldEvicted ==
    /\ Len(gameFields) <= MaxFields
    /\ Len(gameFields) <= Len(fieldIssued)
    /\ \A k \in 1..Len(gameFields) :
            gameFields[k].id = fieldIssued[Len(fieldIssued) - Len(gameFields) + k]
    /\ lastOp.op = "createField" /\ lastOp.atCap => Len(gameFields) = MaxFields

\* a field was placed while MAX_FIELDS fields were held, for the second time
C21_Witness ==
    /\ lastOp.op = "createField"
    /\ lastOp.atCap
    /\ Len(gameFields) = MaxFields
    /\ gameFields[1].id = 2
    /\ gameFields[MaxFields].id = MaxFields + 1

\* C22: after each createParticle and after each tick the number of live particles
\* is at most the current config.maxParticles, whatever accepted value updateConfig
\* has written to it
C22_CountWithinCurrentMax ==
    lastOp.op \in {"createParticle", "update"} => Len(particles) <= config.maxParticles

\* C29: updateConfig with NaN, an infinity or a negative number leaves the whole
\* configuration as it was; with a finite number >= 0 it writes that number to that
\* key and to no other; no value of the configuration is ever negative
C29_ConfigValidated ==
    /\ [](\A key \in DOMAIN config : config[key] >= 0)
    /\ [][lastOp'.op = "updateConfig" =>
            config' = IF lastOp'.finite /\ lastOp'.value >= 0
                      THEN [config EXCEPT ![lastOp'.key] = lastOp'.value]
                      ELSE config]_vars

\* every kind of rejected number has been tried on a slider that an accepted
\* number had moved before
C29_Witness ==
    /\ lastOp.op = "updateConfig"
    /\ ~lastOp.accepted
    /\ ~lastOp.finite
    /\ lastOp.value < 0
    /\ lastOp.key = "gravity"
    /\ config.gravity = 2
    /\ config.maxParticles = 0

\* where the move of update(dt, fields) takes a coordinate, before the walls are looked at
MoveTarget(pos, old, acc, dt) == pos + Quot((pos - old) * config.friction, 100) + acc * dt * dt

\* one axis of a particle across a tick: p and old before it, q and qold after it,
\* L the wall the move has passed
BouncedAt(L, p, q, qold) ==
    /\ q = L
    /\ qold = L + Quot((L - p) * RestitutionNum, RestitutionDen)

AxisAfterTick(p, old, acc, dt, radius, limit, q, qold) ==
    LET target == MoveTarget(p, old, acc, dt)
        inside == radius <= p /\ p <= limit - radius
    IN  /\ target < radius =>
                BouncedAt(radius, p, q, qold) /\ (inside => q - qold >= 0)
        /\ target >= radius /\ target > limit - radius =>
                BouncedAt(limit - radius, p, q, qold) /\ (inside => q - qold <= 0)
        /\ target >= radius /\ target <= limit - radius =>
                q = target /\ qold = p

\* C23: a tick that moves a non-fixed particle past a wall on one axis puts it on the
\* wall limit L on that axis and sets oldPosition there to L + (L - p) * 0.8, p being
\* the coordinate before the tick; when p was inside the bounds the implied velocity
\* position - oldPosition points into the viewport or is zero; an axis whose move
\* stays inside keeps the moved position and p as oldPosition, whatever happened on
\* the other axis
C23_Bounce ==
    [][lastOp'.op = "update" =>
        \A i \in 1..Len(particles) : \A j \in 1..Len(particles') :
            LET p == particles[i]
                q == particles'[j]
                acc == CalculateForces(p, gameFields)
            IN  ~p.fixed /\ q.id = p.id =>
                    /\ AxisAfterTick(p.position.x, p.oldPosition.x, acc.x, lastOp'.dt,
                                     p.radius, width, q.position.x, q.oldPosition.x)
                    /\ AxisAfterTick(p.position.y, p.oldPosition.y, acc.y, lastOp'.dt,
                                     p.radius, height, q.position.y, q.oldPosition.y)]_vars

\* a particle thrown from inside the viewport has bounced off the far wall on x with
\* a velocity pointing back in, while its y axis was left to the free move
C23_Witness ==
    /\ lastOp.op = "update"
    /\ width = 6
    /\ \E q \in Live : /\ ~q.fixed
                        /\ q.position.x = width - q.radius
                        /\ q.oldPosition.x = 6
                        /\ q.position.y = 5
                        /\ q.oldPosition.y = 4

\* C26: whenever render runs, the list it draws holds exactly the live particles of
\* the ParticleSystem
C26_RenderDrawsLiveSet == lastOp.op = "render" => stateParticles = particles

\* C28: a tick made while the Game is paused changes nothing: particles, ids, the
\* fields, gameTime, the spawn timer, state.particles and state.stats are as before
C28_PausedTickIdle ==
    [][isPaused /\ lastOp'.op = "gameUpdate" =>
        UNCHANGED <<particles, nextId, config, width, height, issued, gameFields,
                    nextFieldId, isPaused, activeTool, isMouseDown, mousePosition,
                    gameTime, particleSpawnTimer, stateParticles, stats>>]_vars

\* a tick was made while paused, with the particle tool held, the spawn timer one step
\* from due and a live particle that the tick would have moved
C28_Witness ==
    /\ lastOp.op = "gameUpdate"
    /\ isPaused
    /\ ToolHeld
    /\ particleSpawnTimer = 1
    /\ gameTime = 3
    /\ \E p \in Live : p.position.y < height - p.radius
    /\ stats.particleCount = 1

\* C30: an emit invokes every handler that was subscribed when it began and was not
\* unsubscribed before its turn, exactly once and in subscription order
C30_EmitInvokesEachOnce ==
    busOp = "emitted" => invoked = SelectSeq(atStart, LAMBDA h : h \notin removedEarly)

====
